---------------------------- MODULE Spec2Model ----------------------------
(***************************************************************************)
(* A model of neovide's editor Window (src/src/editor/window.rs): the      *)
(* character grid it owns, the operations that change it and the draw      *)
(* commands they queue.                                                    *)
(*                                                                         *)
(* Values.  Option<T> is a sequence of length at most one: None is <<>>,   *)
(* Some(v) is <<v>>.  A String is a sequence of code points; the model's   *)
(* code points are "a" (a base character) and "m" (a combining mark, of   *)
(* Unicode's Grapheme_Extend class).  A grid cell (String, Option<Style>)  *)
(* is a record [text, style].  u64 and i64 values are integers; a negative *)
(* i64 cast with `as u64` is far above every grid dimension, so the        *)
(* bounds checks treat a negative coordinate as out of range.  A u64 cast  *)
(* with `as i64` keeps its bits: the upper half of the u64 values becomes  *)
(* negative.  The model's words are IntBits wide where the program's are   *)
(* 64; sums and differences stay within the word for the inputs drawn.     *)
(***************************************************************************)
EXTENDS Integers, Sequences, FiniteSets, TLC

VARIABLES
    grid,           \* Window.grid: [width, height, characters]
    anchor_info,    \* Window.anchor_info: Option<sort_order>
    grid_position,  \* Window.grid_position
    sent,           \* the commands the latest operation queued, in order
    screen,         \* the reference screen: the replay of every command queued so far
    lossless,       \* every DrawLine queued so far splits back into the cells it was built from
    stream,         \* of all the commands queued so far: the first one's type, the latest Position
    call            \* the latest operation and its arguments

vars == <<grid, anchor_info, grid_position, sent, screen, lossless, stream, call>>

None == <<>>
Some(v) == <<v>>

(***************************************************************************)
(* Bounds of the model.                                                    *)
(***************************************************************************)
MaxWidth == 3
MaxHeight == 3
MaxArea == 2
MaxCells == 2
MaxRepeat == 2
IntBits == 5

(***************************************************************************)
(* Strings and grapheme clusters.                                          *)
(***************************************************************************)
CodePoints == {"a", "m"}

\* Grapheme_Extend: a code point that never starts a cluster after another
\* code point (UAX #29, rule GB9).
IsExtend(c) == c = "m"

\* str::repeat
RECURSIVE repeat(_, _)
repeat(text, times) ==
    IF times = 0 THEN <<>> ELSE text \o repeat(text, times - 1)

\* UnicodeSegmentation::graphemes(true): the text's extended grapheme
\* clusters, in order.  A combining mark joins the cluster before it; at the
\* start of the text it is a cluster of its own.
RECURSIVE graphemes_from(_, _, _)
graphemes_from(text, i, acc) ==
    IF i > Len(text) THEN acc
    ELSE IF IsExtend(text[i]) /\ acc # <<>>
         THEN graphemes_from(text, i + 1,
                  [acc EXCEPT ![Len(acc)] = Append(@, text[i])])
         ELSE graphemes_from(text, i + 1, Append(acc, <<text[i]>>))

graphemes(text) == graphemes_from(text, 1, <<>>)

(***************************************************************************)
(* CharacterGrid (editor/grid.rs is not among the source files; modelled   *)
(* from the specification: a dense row-major array, blank = empty text and *)
(* no style, out-of-range access is None, resize keeps the overlap).       *)
(***************************************************************************)
DefaultCell == [text |-> <<>>, style |-> None]

CharacterGrid_new(size) ==
    [width |-> size[1], height |-> size[2],
     characters |-> [i \in 1..(size[1] * size[2]) |-> DefaultCell]]

\* get_cell / get_cell_mut return Some exactly for these coordinates.
in_bounds(g, x, y) == x >= 0 /\ y >= 0 /\ x < g.width /\ y < g.height

\* The cell get_cell(x, y) returns when it returns Some.
cell_at(g, x, y) == g.characters[y * g.width + x + 1]

\* if let Some(cell) = grid.get_cell_mut(x, y) { *cell = value }
set_cell(g, x, y, value) ==
    IF in_bounds(g, x, y)
    THEN [g EXCEPT !.characters[y * g.width + x + 1] = value]
    ELSE g

CharacterGrid_resize(g, size) ==
    [width |-> size[1], height |-> size[2],
     characters |->
        [i \in 1..(size[1] * size[2]) |->
            LET x == (i - 1) % size[1]
                y == (i - 1) \div size[1]
            IN IF in_bounds(g, x, y) THEN cell_at(g, x, y) ELSE DefaultCell]]

CharacterGrid_clear(g) ==
    [g EXCEPT !.characters = [i \in 1..(g.width * g.height) |-> DefaultCell]]


(***************************************************************************)
(* Window::modify_grid: one update of a draw_grid_line call.  The result   *)
(* is the grid, the column cursor and the carry style after the update.    *)
(***************************************************************************)
\* defined_styles.get(&style_id).cloned()
styles_get(defined_styles, style_id) ==
    IF style_id \in DOMAIN defined_styles
    THEN Some(defined_styles[style_id])
    ELSE None

\* The resolution that answers a highlight id missing from the table with
\* the carry style.
resolve_style_missing_carried(cell, defined_styles, previous_style) ==
    IF cell.highlight_id = Some(0) THEN None
    ELSE IF cell.highlight_id # None /\ cell.highlight_id[1] \in DOMAIN defined_styles
         THEN styles_get(defined_styles, cell.highlight_id[1])
         ELSE previous_style

\* The style an update is written with (window.rs lines 124-128).
resolve_style(cell, defined_styles, previous_style) ==
    IF cell.highlight_id = Some(0) THEN None
    ELSE IF cell.highlight_id # None
         THEN styles_get(defined_styles, cell.highlight_id[1])
         ELSE previous_style

\* The layout on a flat array without the bounds check: a cluster past the
\* width lands at the start of the next row.
RECURSIVE write_graphemes_wrapped(_, _, _, _, _, _)
write_graphemes_wrapped(g, row_index, column_pos, clusters, i, style) ==
    IF i > Len(clusters)
    THEN [grid |-> g, column_pos |-> column_pos]
    ELSE write_graphemes_wrapped(
             IF column_pos >= g.width
             THEN set_cell(g, column_pos - g.width, row_index + 1,
                           [text |-> clusters[i], style |-> style])
             ELSE set_cell(g, column_pos, row_index,
                           [text |-> clusters[i], style |-> style]),
             row_index, column_pos + 1, clusters, i + 1, style)

\* for character in text.graphemes(true) { write; *column_pos += 1 }
RECURSIVE write_graphemes(_, _, _, _, _, _)
write_graphemes(g, row_index, column_pos, clusters, i, style) ==
    IF i > Len(clusters)
    THEN [grid |-> g, column_pos |-> column_pos]
    ELSE write_graphemes(
             set_cell(g, column_pos, row_index,
                      [text |-> clusters[i], style |-> style]),
             row_index, column_pos + 1, clusters, i + 1, style)

\* modify_grid without the early return for repeat = 0: the text repeated
\* zero times is empty and is written like an empty text.
modify_grid_repeat_zero_written(g, row_index, column_pos, cell, defined_styles, previous_style) ==
    LET style == resolve_style(cell, defined_styles, previous_style)
        text == IF cell.repeat # None
                THEN repeat(cell.text, cell.repeat[1])
                ELSE cell.text
        written ==
            IF text = <<>>
            THEN [grid |-> set_cell(g, column_pos, row_index,
                                    [text |-> text, style |-> style]),
                  column_pos |-> column_pos + 1]
            ELSE write_graphemes(g, row_index, column_pos,
                                 graphemes(text), 1, style)
    IN [grid |-> written.grid, column_pos |-> written.column_pos,
        previous_style |-> style]

\* modify_grid without the branch for an empty text: its clusters, none,
\* are laid out like those of any other text.
modify_grid_empty_text_laid_out(g, row_index, column_pos, cell, defined_styles, previous_style) ==
    LET style == resolve_style(cell, defined_styles, previous_style)
        text == IF cell.repeat # None
                THEN repeat(cell.text, cell.repeat[1])
                ELSE cell.text
        written == write_graphemes(g, row_index, column_pos,
                                   graphemes(text), 1, style)
    IN IF cell.repeat = Some(0)
       THEN [grid |-> g, column_pos |-> column_pos,
             previous_style |-> previous_style]
       ELSE [grid |-> written.grid, column_pos |-> written.column_pos,
             previous_style |-> style]

modify_grid(g, row_index, column_pos, cell, defined_styles, previous_style) ==
    LET style == resolve_style(cell, defined_styles, previous_style)
        skipped == cell.repeat = Some(0)
        text == IF cell.repeat # None
                THEN repeat(cell.text, cell.repeat[1])
                ELSE cell.text
        written ==
            IF text = <<>>
            THEN [grid |-> set_cell(g, column_pos, row_index,
                                    [text |-> text, style |-> style]),
                  column_pos |-> column_pos + 1]
            ELSE write_graphemes(g, row_index, column_pos,
                                 graphemes(text), 1, style)
    IN IF skipped
       THEN [grid |-> g, column_pos |-> column_pos,
             previous_style |-> previous_style]
       ELSE [grid |-> written.grid, column_pos |-> written.column_pos,
             previous_style |-> style]

\* The loop of draw_grid_line over its cells (window.rs lines 218-229): the
\* sequence of (grid, column_pos, previous_style), before the first update
\* and after each one.
RECURSIVE modify_loop(_, _, _, _, _)
modify_loop(row, cells, defined_styles, i, acc) ==
    IF i > Len(cells) THEN acc
    ELSE LET st == acc[Len(acc)]
         IN modify_loop(row, cells, defined_styles, i + 1,
                Append(acc, modify_grid(st.grid, row, st.column_pos, cells[i],
                                        defined_styles, st.previous_style)))

modify_trace(g, row, column_start, cells, defined_styles) ==
    modify_loop(row, cells, defined_styles, 1,
        << [grid |-> g, column_pos |-> column_start, previous_style |-> None] >>)

(***************************************************************************)
(* Window::build_line_fragment and Window::redraw_line.                    *)
(***************************************************************************)
\* The loop without the break after an empty text: the fragment runs on to
\* the next change of style.
RECURSIVE fragment_scan_through_empty(_, _, _, _, _, _)
fragment_scan_through_empty(g, row_index, style, possible_end_index, text, width) ==
    IF possible_end_index >= g.width
    THEN [text |-> text, width |-> width]
    ELSE LET c == cell_at(g, possible_end_index, row_index)
         IN IF style # c.style
            THEN [text |-> text, width |-> width]
            ELSE fragment_scan_through_empty(g, row_index, style,
                     possible_end_index + 1, text \o c.text, width + 1)

\* The loop with the test for an empty text ahead of the count: the
\* fragment ends before the continuation cell, which starts the next one.
RECURSIVE fragment_scan_before_empty(_, _, _, _, _, _)
fragment_scan_before_empty(g, row_index, style, possible_end_index, text, width) ==
    IF possible_end_index >= g.width
    THEN [text |-> text, width |-> width]
    ELSE LET c == cell_at(g, possible_end_index, row_index)
         IN IF style # c.style
            THEN [text |-> text, width |-> width]
            ELSE IF c.text = <<>>
                 THEN [text |-> text, width |-> IF width = 0 THEN 1 ELSE width]
                 ELSE fragment_scan_before_empty(g, row_index, style,
                          possible_end_index + 1, text \o c.text, width + 1)

\* The loop that ends after its first cell.
fragment_scan_one_cell(g, row_index, style, possible_end_index, text, width) ==
    [text |-> cell_at(g, possible_end_index, row_index).text, width |-> 1]

\* The loop with the test for an empty text ahead of the count: a cell with
\* empty text ends the fragment and is not part of it.
RECURSIVE fragment_scan_empty_uncounted(_, _, _, _, _, _)
fragment_scan_empty_uncounted(g, row_index, style, possible_end_index, text, width) ==
    IF possible_end_index >= g.width
    THEN [text |-> text, width |-> width]
    ELSE LET c == cell_at(g, possible_end_index, row_index)
         IN IF style # c.style \/ c.text = <<>>
            THEN [text |-> text, width |-> width]
            ELSE fragment_scan_empty_uncounted(g, row_index, style,
                     possible_end_index + 1, text \o c.text, width + 1)

\* The for loop of build_line_fragment: [text, width] when it ends.
RECURSIVE fragment_scan(_, _, _, _, _, _)
fragment_scan(g, row_index, style, possible_end_index, text, width) ==
    IF possible_end_index >= g.width
    THEN [text |-> text, width |-> width]
    ELSE LET c == cell_at(g, possible_end_index, row_index)
         IN IF style # c.style
            THEN [text |-> text, width |-> width]
            ELSE IF c.text = <<>>
                 THEN [text |-> text, width |-> width + 1]
                 ELSE fragment_scan(g, row_index, style,
                          possible_end_index + 1, text \o c.text, width + 1)

\* build_line_fragment with the continuation cell left out of the width
\* (the next fragment still starts after it).
build_line_fragment_continuation_uncounted(g, row_index, start) ==
    LET style == cell_at(g, start, row_index).style
        run == fragment_scan(g, row_index, style, start, <<>>, 0)
        last == cell_at(g, start + run.width - 1, row_index)
        width == IF last.text = <<>> THEN run.width - 1 ELSE run.width
    IN << start + run.width,
          [text |-> run.text, window_left |-> start, window_top |-> row_index,
           width |-> width, style |-> style] >>

\* (start + width, line_fragment)
build_line_fragment(g, row_index, start) ==
    LET style == cell_at(g, start, row_index).style
        run == fragment_scan(g, row_index, style, start, <<>>, 0)
    IN << start + run.width,
          [text |-> run.text, window_left |-> start, window_top |-> row_index,
           width |-> run.width, style |-> style] >>

\* The while loop of redraw_line: the fragments of a row, left to right.
RECURSIVE line_fragments(_, _, _, _)
line_fragments(g, row, current_start, acc) ==
    IF current_start < g.width
    THEN LET built == build_line_fragment(g, row, current_start)
         IN line_fragments(g, row, built[1], Append(acc, built[2]))
    ELSE acc

\* The command redraw_line queues.
redraw_line(g, row) ==
    [type |-> "DrawLine", fragments |-> line_fragments(g, row, 0, <<>>)]

(***************************************************************************)
(* Window::scroll_region: the in-place copy on the grid.                   *)
(***************************************************************************)
\* u64::MAX
u64_MAX == 2 ^ IntBits - 1

\* v as i64, for a u64 v.
as_i64(v) == IF v >= 2 ^ (IntBits - 1) THEN v - 2 ^ IntBits ELSE v

\* The range a..b (b excluded), ascending: empty when b <= a.
range(a, b) == [i \in 1..(IF b > a THEN b - a ELSE 0) |-> a + i - 1]

\* Iterator::rev
rev(s) == [i \in 1..Len(s) |-> s[Len(s) + 1 - i]]

\* y_iter that always ascends.
y_iter_ascending(top, bottom, rows) ==
    IF rows > 0
    THEN range(as_i64(top) + rows, as_i64(bottom))
    ELSE range(as_i64(top), as_i64(bottom) + rows)

y_iter(top, bottom, rows) ==
    IF rows > 0
    THEN range(as_i64(top) + rows, as_i64(bottom))
    ELSE rev(range(as_i64(top), as_i64(bottom) + rows))

\* x_iter that always ascends.
x_iter_ascending(left, right, cols) ==
    IF cols > 0
    THEN range(as_i64(left) + cols, as_i64(right))
    ELSE range(as_i64(left), as_i64(right) + cols)

x_iter(left, right, cols) ==
    IF cols > 0
    THEN range(as_i64(left) + cols, as_i64(right))
    ELSE rev(range(as_i64(left), as_i64(right) + cols))

\* for x in x_iter { ... } (window.rs lines 290-301)
RECURSIVE scroll_columns(_, _, _, _, _, _)
scroll_columns(g, y, dest_y, xs, i, cols) ==
    IF i > Len(xs) THEN g
    ELSE LET x == xs[i]
             dest_x == x - cols
         IN scroll_columns(
                IF in_bounds(g, x, y)
                THEN set_cell(g, dest_x, dest_y, cell_at(g, x, y))
                ELSE g,
                y, dest_y, xs, i + 1, cols)

\* for y in y_iter { ... } (window.rs lines 277-303)
RECURSIVE scroll_rows(_, _, _, _, _, _, _)
scroll_rows(g, ys, j, left, right, rows, cols) ==
    IF j > Len(ys) THEN g
    ELSE LET y == ys[j]
             dest_y == y - rows
         IN scroll_rows(
                IF dest_y >= 0 /\ dest_y < g.height
                THEN scroll_columns(g, y, dest_y, x_iter(left, right, cols), 1, cols)
                ELSE g,
                ys, j + 1, left, right, rows, cols)

\* scroll_region that moves the rows and leaves the columns where they are.
scroll_grid_rows_only(g, top, bottom, left, right, rows, cols) ==
    scroll_rows(g, y_iter(top, bottom, rows), 1, left, right, rows, 0)

\* The grid after scroll_region.
scroll_grid(g, top, bottom, left, right, rows, cols) ==
    scroll_rows(g, y_iter(top, bottom, rows), 1, left, right, rows, cols)

(***************************************************************************)
(* The commands a window queues (renderer::WindowDrawCommand).             *)
(***************************************************************************)
\* The Position command with the width and the height in each other's place.
send_updated_position_transposed(g, ai, gp) ==
    [type |-> "Position", grid_position |-> gp,
     grid_size |-> <<g.height, g.width>>, floating_order |-> ai]

\* Window::send_updated_position
send_updated_position(g, ai, gp) ==
    [type |-> "Position", grid_position |-> gp,
     grid_size |-> <<g.width, g.height>>, floating_order |-> ai]

\* The Scroll command with the two deltas in each other's place.
Scroll_deltas_swapped(top, bottom, left, right, rows, cols) ==
    [type |-> "Scroll", top |-> top, bottom |-> bottom, left |-> left,
     right |-> right, rows |-> cols, cols |-> rows]

Scroll(top, bottom, left, right, rows, cols) ==
    [type |-> "Scroll", top |-> top, bottom |-> bottom, left |-> left,
     right |-> right, rows |-> rows, cols |-> cols]

Clear == [type |-> "Clear"]
Hide == [type |-> "Hide"]
Show == [type |-> "Show"]
Close == [type |-> "Close"]
Viewport(scroll_delta) == [type |-> "Viewport", scroll_delta |-> scroll_delta]

\* The commands of a redraw from the top row down.
redraw_commands_top_down(g) ==
    <<Clear>> \o [i \in 1..g.height |-> redraw_line(g, i - 1)]

\* The commands Window::redraw queues: Clear, then the rows from the bottom up.
redraw_commands(g) ==
    <<Clear>> \o [i \in 1..g.height |-> redraw_line(g, g.height - i)]

\* The redraws of draw_grid_line from the top down: the row above first.
draw_redraws_top_down(g, row) ==
    (IF row > 0 THEN <<redraw_line(g, row - 1)>> ELSE <<>>)
    \o <<redraw_line(g, row)>>
    \o (IF row < g.height - 1 THEN <<redraw_line(g, row + 1)>> ELSE <<>>)

\* The commands draw_grid_line queues once the grid is updated
\* (window.rs lines 235-241).
draw_redraws(g, row) ==
    (IF row < g.height - 1 THEN <<redraw_line(g, row + 1)>> ELSE <<>>)
    \o <<redraw_line(g, row)>>
    \o (IF row > 0 THEN <<redraw_line(g, row - 1)>> ELSE <<>>)

(***************************************************************************)
(* The reference screen: what a consumer holds that replays the commands   *)
(* in order.  Position sets the size, Clear blanks every cell, DrawLine    *)
(* lays each fragment's grapheme clusters over the columns it covers, and  *)
(* Scroll moves the cells of the region by the two deltas.                 *)
(***************************************************************************)
BlankCell == [text |-> <<>>, style |-> None]

EmptyScreen == [width |-> 0, height |-> 0, characters |-> <<>>]

RefInside(scr, x, y) == x >= 0 /\ y >= 0 /\ x < scr.width /\ y < scr.height

RefCell(scr, x, y) == scr.characters[y * scr.width + x + 1]

RefPosition(scr, c) ==
    [width |-> c.grid_size[1], height |-> c.grid_size[2],
     characters |->
        [i \in 1..(c.grid_size[1] * c.grid_size[2]) |->
            LET x == (i - 1) % c.grid_size[1]
                y == (i - 1) \div c.grid_size[1]
            IN IF RefInside(scr, x, y) THEN RefCell(scr, x, y) ELSE BlankCell]]

RefClear(scr) ==
    [scr EXCEPT !.characters = [i \in DOMAIN scr.characters |-> BlankCell]]

RefFragment(scr, f) ==
    LET clusters == graphemes(f.text)
    IN [scr EXCEPT !.characters =
           [i \in DOMAIN scr.characters |->
               LET x == (i - 1) % scr.width
                   y == (i - 1) \div scr.width
                   k == x - f.window_left
               IN IF y = f.window_top /\ k >= 0 /\ k < f.width
                  THEN [text |-> IF k < Len(clusters) THEN clusters[k + 1] ELSE <<>>,
                        style |-> f.style]
                  ELSE scr.characters[i]]]

RECURSIVE RefDrawLine(_, _, _)
RefDrawLine(scr, fragments, i) ==
    IF i > Len(fragments) THEN scr
    ELSE RefDrawLine(RefFragment(scr, fragments[i]), fragments, i + 1)

RefInRegion(c, x, y) ==
    c.top <= y /\ y < c.bottom /\ c.left <= x /\ x < c.right

RefScroll(scr, c) ==
    [scr EXCEPT !.characters =
        [i \in DOMAIN scr.characters |->
            LET x == (i - 1) % scr.width
                y == (i - 1) \div scr.width
                sx == x + c.cols
                sy == y + c.rows
            IN IF RefInRegion(c, x, y) /\ RefInRegion(c, sx, sy)
                  /\ RefInside(scr, sx, sy)
               THEN RefCell(scr, sx, sy)
               ELSE scr.characters[i]]]

Replay(scr, c) ==
    CASE c.type = "Position" -> RefPosition(scr, c)
      [] c.type = "Clear" -> RefClear(scr)
      [] c.type = "DrawLine" -> RefDrawLine(scr, c.fragments, 1)
      [] c.type = "Scroll" -> RefScroll(scr, c)
      [] OTHER -> scr

RECURSIVE ReplayAll(_, _, _)
ReplayAll(scr, commands, i) ==
    IF i > Len(commands) THEN scr
    ELSE ReplayAll(Replay(scr, commands[i]), commands, i + 1)

\* A fragment is lossless when segmenting its text gives back the texts of
\* the non-empty cells it was built from.
FragmentLossless(g, f) ==
    LET span == [k \in 1..f.width |->
                    cell_at(g, f.window_left + k - 1, f.window_top).text]
    IN graphemes(f.text) = SelectSeq(span, LAMBDA t : t # <<>>)

CommandsLossless(g, commands) ==
    \A i \in 1..Len(commands) :
        commands[i].type = "DrawLine" =>
            \A j \in 1..Len(commands[i].fragments) :
                FragmentLossless(g, commands[i].fragments[j])

\* The stream of commands st with the commands from the i-th on queued
\* after it: first is the type of the first command of the stream, position
\* the latest Position command (each None while there is none).
RECURSIVE Queued(_, _, _)
Queued(st, commands, i) ==
    IF i > Len(commands) THEN st
    ELSE Queued([first |-> IF st.first = None THEN Some(commands[i].type)
                           ELSE st.first,
                 position |-> IF commands[i].type = "Position" THEN Some(commands[i])
                              ELSE st.position],
                commands, i + 1)

EmptyStream == [first |-> None, position |-> None]

\* send_command for each command of an operation, in order; g is the grid
\* the operation leaves.
Queue(g, commands) ==
    /\ sent' = commands
    /\ screen' = ReplayAll(screen, commands, 1)
    /\ lossless' = (lossless /\ CommandsLossless(g, commands))
    /\ stream' = Queued(stream, commands, 1)

(***************************************************************************)
(* The operations of Window.                                               *)
(***************************************************************************)
\* Window::new that draws the grid before it sends the position.
new_redrawn_first(ai, gp, size) ==
    LET g == CharacterGrid_new(size)
        commands == redraw_commands(g) \o <<send_updated_position(g, ai, gp)>>
    IN /\ grid = g
       /\ anchor_info = ai
       /\ grid_position = gp
       /\ sent = commands
       /\ screen = ReplayAll(EmptyScreen, commands, 1)
       /\ lossless = TRUE
       /\ stream = Queued(EmptyStream, commands, 1)
       /\ call = [op |-> "new", anchor_info |-> ai, grid_position |-> gp,
                  grid_size |-> size]

\* Window::new
new(ai, gp, size) ==
    LET g == CharacterGrid_new(size)
        commands == <<send_updated_position(g, ai, gp)>>
    IN /\ grid = g
       /\ anchor_info = ai
       /\ grid_position = gp
       /\ sent = commands
       /\ screen = ReplayAll(EmptyScreen, commands, 1)
       /\ lossless = TRUE
       /\ stream = Queued(EmptyStream, commands, 1)
       /\ call = [op |-> "new", anchor_info |-> ai, grid_position |-> gp,
                  grid_size |-> size]

position(ai, size, gp) ==
    LET g == CharacterGrid_resize(grid, size)
    IN /\ grid' = g
       /\ anchor_info' = ai
       /\ grid_position' = gp
       /\ Queue(g, <<send_updated_position(g, ai, gp)>> \o redraw_commands(g))
       /\ call' = [op |-> "position", anchor_info |-> ai, grid_position |-> gp,
                   grid_size |-> size]

\* Window::resize that redraws before it resizes the grid: the commands
\* describe the grid as it was.
resize_redrawn_before(new_size) ==
    LET g == CharacterGrid_resize(grid, new_size)
    IN /\ grid' = g
       /\ Queue(g, <<send_updated_position(g, anchor_info, grid_position)>>
                   \o redraw_commands(grid))
       /\ call' = [op |-> "resize", grid_size |-> new_size]
       /\ UNCHANGED <<anchor_info, grid_position>>

resize(new_size) ==
    LET g == CharacterGrid_resize(grid, new_size)
    IN /\ grid' = g
       /\ Queue(g, <<send_updated_position(g, anchor_info, grid_position)>>
                   \o redraw_commands(g))
       /\ call' = [op |-> "resize", grid_size |-> new_size]
       /\ UNCHANGED <<anchor_info, grid_position>>

\* draw_grid_line that answers a row outside the grid with a full redraw.
draw_grid_line_redraw_outside(row, column_start, cells, defined_styles) ==
    /\ IF row < grid.height
       THEN LET trace == modify_trace(grid, row, column_start, cells, defined_styles)
                g == trace[Len(trace)].grid
            IN /\ grid' = g
               /\ Queue(g, draw_redraws(g, row))
       ELSE /\ grid' = grid
            /\ Queue(grid, redraw_commands(grid))
    /\ call' = [op |-> "draw_grid_line", row |-> row, column_start |-> column_start,
                cells |-> cells, defined_styles |-> defined_styles]
    /\ UNCHANGED <<anchor_info, grid_position>>

draw_grid_line(row, column_start, cells, defined_styles) ==
    /\ IF row < grid.height
       THEN LET trace == modify_trace(grid, row, column_start, cells, defined_styles)
                g == trace[Len(trace)].grid
            IN /\ grid' = g
               /\ Queue(g, draw_redraws(g, row))
       ELSE /\ grid' = grid
            /\ Queue(grid, <<>>)
    /\ call' = [op |-> "draw_grid_line", row |-> row, column_start |-> column_start,
                cells |-> cells, defined_styles |-> defined_styles]
    /\ UNCHANGED <<anchor_info, grid_position>>

scroll_region(top, bottom, left, right, rows, cols) ==
    LET g == scroll_grid(grid, top, bottom, left, right, rows, cols)
    IN /\ grid' = g
       /\ Queue(g, <<Scroll(top, bottom, left, right, rows, cols)>>)
       /\ call' = [op |-> "scroll_region", top |-> top, bottom |-> bottom,
                   left |-> left, right |-> right, rows |-> rows, cols |-> cols]
       /\ UNCHANGED <<anchor_info, grid_position>>

clear ==
    LET g == CharacterGrid_clear(grid)
    IN /\ grid' = g
       /\ Queue(g, <<Clear>>)
       /\ call' = [op |-> "clear"]
       /\ UNCHANGED <<anchor_info, grid_position>>

redraw ==
    /\ Queue(grid, redraw_commands(grid))
    /\ call' = [op |-> "redraw"]
    /\ UNCHANGED <<grid, anchor_info, grid_position>>

hide ==
    /\ Queue(grid, <<Hide>>)
    /\ call' = [op |-> "hide"]
    /\ UNCHANGED <<grid, anchor_info, grid_position>>

show ==
    /\ Queue(grid, <<Show>>)
    /\ call' = [op |-> "show"]
    /\ UNCHANGED <<grid, anchor_info, grid_position>>

close ==
    /\ Queue(grid, <<Close>>)
    /\ call' = [op |-> "close"]
    /\ UNCHANGED <<grid, anchor_info, grid_position>>

update_viewport(scroll_delta) ==
    /\ Queue(grid, <<Viewport(scroll_delta)>>)
    /\ call' = [op |-> "update_viewport"]
    /\ UNCHANGED <<grid, anchor_info, grid_position>>

(***************************************************************************)
(* Inputs.                                                                 *)
(***************************************************************************)
Sizes == (0..MaxWidth) \X (0..MaxHeight)
\* (anchor_info, grid_position) of a position call.
Placements == {<<None, <<0, 0>>>>, <<Some(1), <<1, 1>>>>}

\* The style table: highlight id i is defined for i in ids, as style 10 + i.
StyleTable(ids) == [i \in ids |-> 10 + i]

Texts == {<<>>, <<"a">>, <<"m">>, <<"a", "m">>}
HighlightIds == {None, Some(0), Some(1), Some(2)}
Repeats == {None} \cup {Some(n) : n \in {0, MaxRepeat}}

GridLineCell(text, highlight_id, rep) ==
    [text |-> text, highlight_id |-> highlight_id, repeat |-> rep]

GridLineCells ==
    {GridLineCell(t, h, r) : t \in Texts, h \in HighlightIds, r \in Repeats}

\* Every list of at most n updates.
RECURSIVE CellLists(_)
CellLists(n) ==
    IF n = 0 THEN {<<>>}
    ELSE CellLists(n - 1) \cup
         {Append(l, c) : l \in {k \in CellLists(n - 1) : Len(k) = n - 1},
                         c \in GridLineCells}

(***************************************************************************)
(* Spec, the life of a window: constructed, then any operation in any      *)
(* order, on the grids of at most MaxArea cells.                           *)
(***************************************************************************)
LifeSizes == {size \in Sizes : size[1] * size[2] <= MaxArea}

\* At most one update, of at most one code point, styled or not.
LifeCells ==
    {<<>>} \cup
    {<<GridLineCell(t, h, None)>> :
        t \in {<<>>, <<"a">>, <<"m">>}, h \in {None, Some(1)}}

Init == \E size \in LifeSizes : new(None, <<0, 0>>, size)

Next ==
    \/ \E size \in LifeSizes, placed \in Placements :
            position(placed[1], size, placed[2])
    \/ \E size \in LifeSizes : resize(size)
    \/ \E row \in 0..grid.height, column_start \in 0..grid.width,
          cells \in LifeCells :
            draw_grid_line(row, column_start, cells, StyleTable({1}))
    \/ \E bottom \in 1..grid.height, right \in 1..grid.width,
          rows \in -1..1, cols \in -1..1 :
            scroll_region(0, bottom, 0, right, rows, cols)
    \/ clear
    \/ redraw
    \/ hide
    \/ show
    \/ close
    \/ update_viewport(1)

Spec == Init /\ [][Next]_vars

(***************************************************************************)
(* SpecDraw, one draw_grid_line call: a window is constructed, its rows    *)
(* are left blank or filled from the top row down, and then it receives    *)
(* one draw_grid_line call with any list of at most MaxCells updates.      *)
(***************************************************************************)
\* The call that fills a row: "a", in style 11, in every column.
FillCells == <<GridLineCell(<<"a">>, Some(1), Some(grid.width))>>

IsFill(c) ==
    /\ c.op = "draw_grid_line"
    /\ c.column_start = 0
    /\ c.cells = FillCells

\* The number of rows filled so far.
Filled == IF IsFill(call) THEN call.row + 1 ELSE 0

DrawCells == CellLists(MaxCells)

\* Each dimension is 0, 1 or the largest.
DrawSizes ==
    {size \in Sizes : size[1] \in {0, 1, MaxWidth} /\ size[2] \in {0, 1, MaxHeight}}

InitDraw == \E size \in DrawSizes : new(None, <<0, 0>>, size)

NextDraw ==
    \/ /\ call.op = "new" \/ IsFill(call)
       /\ Filled < grid.height
       /\ draw_grid_line(Filled, 0, FillCells, StyleTable({1}))
    \/ /\ call.op = "new" \/ (IsFill(call) /\ Filled = grid.height)
       /\ \E row \in 0..grid.height, column_start \in 0..grid.width,
             cells \in DrawCells :
               draw_grid_line(row, column_start, cells, StyleTable({1}))

SpecDraw == InitDraw /\ [][NextDraw]_vars

(***************************************************************************)
(* SpecScroll, one scroll_region call: a window is constructed, each of    *)
(* its rows is drawn from the top row down so that no two cells of the     *)
(* grid are alike, and then it receives one scroll_region call.            *)
(***************************************************************************)
\* Row y: column x holds "a" and x combining marks, in the style of
\* highlight id y.
LabelCells(y) ==
    [x \in 1..grid.width |->
        GridLineCell(<<"a">> \o repeat(<<"m">>, x - 1), Some(y), None)]

IsLabel(c) ==
    /\ c.op = "draw_grid_line"
    /\ c.column_start = 0
    /\ c.cells = LabelCells(c.row)

Labelled == IF IsLabel(call) THEN call.row + 1 ELSE 0

\* Where a region starts: from 0 to one past the dimension, or at u64::MAX.
RegionBounds(dimension) == 0..(dimension + 1) \cup {u64_MAX}

InitScroll == \E size \in Sizes : new(None, <<0, 0>>, size)

NextScroll ==
    \/ /\ call.op = "new" \/ IsLabel(call)
       /\ Labelled < grid.height
       /\ draw_grid_line(Labelled, 0, LabelCells(Labelled), StyleTable(1..MaxHeight))
    \/ /\ call.op = "new" \/ IsLabel(call)
       /\ Labelled = grid.height
       /\ \E top \in RegionBounds(grid.height), bottom \in 0..(grid.height + 1),
             left \in RegionBounds(grid.width), right \in 0..(grid.width + 1),
             rows \in -(grid.height + 1)..(grid.height + 1),
             cols \in -(grid.width + 1)..(grid.width + 1) :
               scroll_region(top, bottom, left, right, rows, cols)

SpecScroll == InitScroll /\ [][NextScroll]_vars

(***************************************************************************)
(* Helpers of the properties.                                              *)
(***************************************************************************)
Columns(g) == 0..(g.width - 1)
Rows(g) == 0..(g.height - 1)

NonBlank(g) == \E i \in DOMAIN g.characters : g.characters[i] # DefaultCell

\* The latest operation was a draw_grid_line call on a row of the grid g.
DrewRowOf(c, g) == c.op = "draw_grid_line" /\ c.row < g.height

\* The updates of call c: before the first and after each one, from grid g.
TraceOf(c, g) == modify_trace(g, c.row, c.column_start, c.cells, c.defined_styles)

\* The concatenation of the texts of the cells of row y in columns
\* left .. left + width - 1.
RECURSIVE SpanText(_, _, _, _)
SpanText(g, y, left, width) ==
    IF width <= 0 THEN <<>>
    ELSE cell_at(g, left, y).text \o SpanText(g, y, left + 1, width - 1)

\* The fragments tile the row y of g: each at least one column wide, the
\* first at column 0, each next one right after the one before, up to the
\* width.
RECURSIVE Tiles(_, _, _, _, _)
Tiles(fragments, i, start, y, width) ==
    IF i > Len(fragments) THEN start = width
    ELSE /\ fragments[i].window_left = start
         /\ fragments[i].window_top = y
         /\ fragments[i].width >= 1
         /\ start + fragments[i].width <= width
         /\ Tiles(fragments, i + 1, start + fragments[i].width, y, width)

\* A DrawLine command that carries row y of g: its fragments tile the row,
\* each with the text and the style of the cells it covers.
Carries(command, g, y) ==
    /\ command.type = "DrawLine"
    /\ Tiles(command.fragments, 1, 0, y, g.width)
    /\ \A i \in 1..Len(command.fragments) :
          LET f == command.fragments[i]
          IN /\ f.text = SpanText(g, y, f.window_left, f.width)
             /\ \A x \in f.window_left..(f.window_left + f.width - 1) :
                   cell_at(g, x, y).style = f.style

Stays(c, g, x, y) ==
    /\ in_bounds(g, x, y)
    /\ c.top <= y /\ y < c.bottom /\ c.left <= x /\ x < c.right
    /\ in_bounds(g, x - c.cols, y - c.rows)
    /\ c.top <= y - c.rows /\ y - c.rows < c.bottom
    /\ c.left <= x - c.cols /\ x - c.cols < c.right

\* The grid g scrolled back: the region of call c moved by the opposite
\* deltas.
ScrolledBack(c, g) ==
    scroll_grid(g, c.top, c.bottom, c.left, c.right, -c.rows, -c.cols)

\* C2: scroll_region by (rows, cols) and then by (-rows, -cols) on the same
\* region restores the text and style of every coordinate whose content
\* stayed inside the region and the grid.
C2_RoundTrip ==
    [][call'.op = "scroll_region" =>
          \A x \in Columns(grid), y \in Rows(grid) :
              Stays(call', grid, x, y) =>
                  cell_at(ScrolledBack(call', grid'), x, y) = cell_at(grid, x, y)]_vars

\* C2 witness: a scroll by one row and one column of a 3 x 3 region moved
\* the content of (1, 1) to (0, 0), from where the opposite scroll takes it
\* back.
C2_Witness ==
    /\ call.op = "scroll_region"
    /\ grid.width = 3 /\ grid.height = 3
    /\ call.top = 0 /\ call.bottom = 3 /\ call.left = 0 /\ call.right = 3
    /\ call.rows = 1 /\ call.cols = 1
    /\ cell_at(grid, 0, 0) = [text |-> <<"a", "m">>, style |-> Some(11)]
    /\ cell_at(ScrolledBack(call, grid), 1, 1) = cell_at(grid, 0, 0)

(***************************************************************************)
(* C3.  The Scroll command, and the scroll by (0, 0).                      *)
(***************************************************************************)
\* C3: every scroll_region call queues exactly one command, the Scroll
\* command with the call's region and deltas, and a call with both deltas 0
\* leaves every cell of the grid unchanged.
C3_ScrollCommand ==
    [][call'.op = "scroll_region" =>
          /\ Len(sent') = 1
          /\ sent'[1].type = "Scroll"
          /\ sent'[1].top = call'.top /\ sent'[1].bottom = call'.bottom
          /\ sent'[1].left = call'.left /\ sent'[1].right = call'.right
          /\ sent'[1].rows = call'.rows /\ sent'[1].cols = call'.cols
          /\ (call'.rows = 0 /\ call'.cols = 0 => grid' = grid)]_vars

\* C3 witness: a scroll by (0, 0) of the whole of a 3 x 3 grid of unlike
\* cells queued its Scroll command.
C3_Witness ==
    /\ call.op = "scroll_region"
    /\ call.rows = 0 /\ call.cols = 0
    /\ call.top = 0 /\ call.bottom = 3 /\ call.left = 0 /\ call.right = 3
    /\ grid.width = 3 /\ grid.height = 3
    /\ cell_at(grid, 2, 2) = [text |-> <<"a", "m", "m">>, style |-> Some(12)]
    /\ sent = <<Scroll(0, 3, 0, 3, 0, 0)>>

(***************************************************************************)
(* C4.  The commands of draw_grid_line.                                    *)
(***************************************************************************)
\* The rows draw_grid_line redraws, in order: the row below, the row, the
\* row above.
RedrawnRows(row, height) ==
    (IF row + 1 < height THEN <<row + 1>> ELSE <<>>)
    \o <<row>>
    \o (IF row > 0 THEN <<row - 1>> ELSE <<>>)

\* C4: a draw_grid_line call on a row of the grid queues exactly a DrawLine
\* for the row below (if any), one for the row and one for the row above
\* (if any), in this order, and each carries its row as the grid holds it
\* after the updates.
C4_DrawLines ==
    [][DrewRowOf(call', grid) =>
          LET rows == RedrawnRows(call'.row, grid'.height)
          IN /\ Len(sent') = Len(rows)
             /\ \A i \in 1..Len(rows) : Carries(sent'[i], grid', rows[i])]_vars

\* C4 witness: one update "a" without highlight id at column 2 of row 1 of a
\* blank grid left that cell ("a", no style) and queued the DrawLines of
\* rows 2, 1 and 0.
C4_Witness ==
    /\ call.op = "draw_grid_line"
    /\ call.row = 1 /\ call.column_start = 2
    /\ call.cells = <<GridLineCell(<<"a">>, None, None)>>
    /\ grid.width = 3 /\ grid.height = 3
    /\ cell_at(grid, 2, 1) = [text |-> <<"a">>, style |-> None]
    /\ cell_at(grid, 0, 0) = DefaultCell
    /\ Len(sent) = 3
    /\ sent[1].fragments[1].window_top = 2
    /\ sent[2].fragments[1].window_top = 1
    /\ sent[3].fragments[1].window_top = 0
    /\ sent[2].fragments[3].text = <<"a">>

(***************************************************************************)
(* C5.  draw_grid_line on a row outside the grid.                          *)
(***************************************************************************)
\* C5: a draw_grid_line call whose row is at or beyond the height changes
\* neither the cells nor the size of the grid and queues no command.
C5_RowOutside ==
    [][(call'.op = "draw_grid_line" /\ call'.row >= grid.height) =>
          grid' = grid /\ sent' = <<>>]_vars

\* C5 witness: a call on row 3 of a filled 3 x 3 grid, with an update that
\* would have written, queued nothing.
C5_Witness ==
    /\ call.op = "draw_grid_line"
    /\ call.row = 3
    /\ grid.height = 3 /\ grid.width = 3
    /\ call.column_start = 0
    /\ call.cells = <<GridLineCell(<<"m">>, Some(0), None)>>
    /\ cell_at(grid, 0, 2) = [text |-> <<"a">>, style |-> Some(11)]
    /\ sent = <<>>

(***************************************************************************)
(* C6.  An update with repeat = 0.                                         *)
(***************************************************************************)
\* The updates of a list that are not skipped, in order.
NotSkipped(cells) == SelectSeq(cells, LAMBDA c : c.repeat # Some(0))

\* C6: within a draw_grid_line call an update with repeat = 0, whatever its
\* text and highlight id, leaves the grid, the column cursor and the carry
\* style as they were before it; the call leaves the grid it would leave
\* without the update.
C6_RepeatZero ==
    [][DrewRowOf(call', grid) =>
          LET trace == TraceOf(call', grid)
              without == modify_trace(grid, call'.row, call'.column_start,
                                      NotSkipped(call'.cells), call'.defined_styles)
          IN /\ \A i \in 1..Len(call'.cells) :
                    call'.cells[i].repeat = Some(0) => trace[i + 1] = trace[i]
             /\ grid' = without[Len(without)].grid]_vars

\* C6 witness: a skipped update with text "a" and highlight id 1, then an
\* update "a" without highlight id: the second is written at the start
\* column, without style.
C6_Witness ==
    /\ call.op = "draw_grid_line"
    /\ call.row = 0 /\ call.column_start = 1
    /\ call.cells = <<GridLineCell(<<"a">>, Some(1), Some(0)),
                      GridLineCell(<<"a">>, None, None)>>
    /\ grid.width = 3 /\ grid.height = 1
    /\ cell_at(grid, 0, 0) = DefaultCell
    /\ cell_at(grid, 1, 0) = [text |-> <<"a">>, style |-> None]
    /\ cell_at(grid, 2, 0) = DefaultCell

(***************************************************************************)
(* C7.  An update with empty text.                                         *)
(***************************************************************************)
\* C7: an update with empty text that is not skipped advances the column
\* cursor by exactly one and, when the column the cursor had is inside the
\* grid, leaves there a cell with empty text (in the update's style); it
\* changes no other cell.
C7_EmptyText ==
    [][DrewRowOf(call', grid) =>
          LET trace == TraceOf(call', grid)
          IN /\ grid' = trace[Len(trace)].grid
             /\ \A i \in 1..Len(call'.cells) :
                   (call'.cells[i].text = <<>> /\ call'.cells[i].repeat # Some(0)) =>
                       LET before == trace[i]
                           after == trace[i + 1]
                           style == resolve_style(call'.cells[i], call'.defined_styles,
                                                  before.previous_style)
                       IN /\ after.column_pos = before.column_pos + 1
                          /\ after.grid =
                                set_cell(before.grid, before.column_pos, call'.row,
                                         [text |-> <<>>, style |-> style])]_vars

\* C7 witness: on a filled row, "a" in highlight 0 and then an empty,
\* repeated update without id wrote ("a", no style) at column 0 and a cell
\* with empty text at column 1, and left column 2 filled.
C7_Witness ==
    /\ call.op = "draw_grid_line"
    /\ call.row = 0 /\ call.column_start = 0
    /\ call.cells = <<GridLineCell(<<"a">>, Some(0), None),
                      GridLineCell(<<>>, None, Some(MaxRepeat))>>
    /\ grid.width = 3 /\ grid.height = 1
    /\ cell_at(grid, 0, 0) = [text |-> <<"a">>, style |-> None]
    /\ cell_at(grid, 1, 0) = [text |-> <<>>, style |-> None]
    /\ cell_at(grid, 2, 0) = [text |-> <<"a">>, style |-> Some(11)]

(***************************************************************************)
(* C8.  The fragments of a row tile it.                                    *)
(***************************************************************************)
\* The fragments redraw_line builds for row y.
FragmentsOf(g, y) == redraw_line(g, y).fragments

\* C8: the fragments of every row have width >= 1, the first starts at
\* column 0, each next one starts right after the one before, and the
\* widths add up to the width of the grid; a grid of width 0 has none.
C8_FragmentsTile ==
    \A y \in Rows(grid) :
        /\ Tiles(FragmentsOf(grid, y), 1, 0, y, grid.width)
        /\ (grid.width = 0 => FragmentsOf(grid, y) = <<>>)

\* C8 witness: a row of width 3 that holds "a" styled, a continuation cell
\* and a blank cell is redrawn as the fragments [0, 2) and [2, 3).
C8_Witness ==
    /\ call.op = "draw_grid_line"
    /\ grid.width = 3 /\ grid.height = 1
    /\ cell_at(grid, 0, 0) = [text |-> <<"a">>, style |-> Some(11)]
    /\ cell_at(grid, 1, 0) = [text |-> <<>>, style |-> Some(11)]
    /\ cell_at(grid, 2, 0) = DefaultCell
    /\ Len(sent) = 1
    /\ Len(sent[1].fragments) = 2
    /\ sent[1].fragments[1].width = 2
    /\ sent[1].fragments[2].window_left = 2

(***************************************************************************)
(* C9.  The fragments of a blank row.                                      *)
(***************************************************************************)
BlankRow(g, y) == \A x \in Columns(g) : cell_at(g, x, y) = DefaultCell

\* Every cell of the row has a non-empty text, and all have one style.
SolidRow(g, y) ==
    \A x \in Columns(g) :
        /\ cell_at(g, x, y).text # <<>>
        /\ cell_at(g, x, y).style = cell_at(g, 0, y).style

Continued(g, x, y) ==
    /\ x + 1 < g.width
    /\ cell_at(g, x, y).text # <<>>
    /\ cell_at(g, x + 1, y).text = <<>>

\* A fragment of row y covers the columns x and x + 1 and ends right
\* after x + 1.
EndsAfterContinuation(g, x, y) ==
    \E i \in 1..Len(FragmentsOf(g, y)) :
        LET f == FragmentsOf(g, y)[i]
        IN /\ f.window_left <= x
           /\ f.window_left + f.width = x + 2
           /\ (i < Len(FragmentsOf(g, y)) =>
                   FragmentsOf(g, y)[i + 1].window_left = x + 2)

\* C10 as stated: whenever a cell with a text is followed by a cell with
\* empty text, the fragment of the first covers the second too and ends
\* right after it.
C10_Continuation ==
    \A y \in Rows(grid), x \in Columns(grid) :
        Continued(grid, x, y) => EndsAfterContinuation(grid, x, y)

\* C10 amended: whenever a cell with a text is followed by a cell with empty
\* text and the same style, the fragment of the first covers the second too
\* and ends right after it.
C10_ContinuationSameStyle ==
    \A y \in Rows(grid), x \in Columns(grid) :
        (Continued(grid, x, y)
            /\ cell_at(grid, x, y).style = cell_at(grid, x + 1, y).style) =>
            EndsAfterContinuation(grid, x, y)

\* C10 witness: "a" and an empty text, both in highlight 1, drawn at column
\* 0 of a filled row of width 3: the fragments are [0, 2) and [2, 3).
C10_Witness ==
    /\ call.op = "draw_grid_line"
    /\ call.row = 0 /\ call.column_start = 0
    /\ call.cells = <<GridLineCell(<<"a">>, Some(1), None),
                      GridLineCell(<<>>, None, None)>>
    /\ grid.width = 3 /\ grid.height = 1
    /\ cell_at(grid, 2, 0) = [text |-> <<"a">>, style |-> Some(11)]
    /\ Continued(grid, 0, 0)
    /\ Len(sent[1].fragments) = 2
    /\ sent[1].fragments[1].width = 2
    /\ sent[1].fragments[2].window_left = 2

(***************************************************************************)
(* C11.  The size of the latest Position command.                          *)
(***************************************************************************)
SizeOf(g) == <<g.width, g.height>>

\* C11: after every operation the latest Position command queued carries
\* the width and the height the grid has, and no operation other than new,
\* position and resize changes the width or the height of the grid.
C11_PositionSize ==
    /\ [](stream.position # None /\ stream.position[1].grid_size = SizeOf(grid))
    /\ [][call'.op \notin {"position", "resize"} => SizeOf(grid') = SizeOf(grid)]_vars

\* C11 witness: a resize to 1 x 2 of a grid that was 2 x 1 and not blank;
\* the latest Position command carries (1, 2).
C11_Witness ==
    /\ call.op = "resize"
    /\ call.grid_size = <<1, 2>>
    /\ NonBlank(grid)
    /\ SizeOf(grid) = <<1, 2>>
    /\ sent[1].type = "Position"
    /\ stream.position = Some(sent[1])
    /\ sent[1].grid_size = <<1, 2>>

(***************************************************************************)
(* C12.  The first command of a window.                                    *)
(***************************************************************************)
\* C12: the first command of the stream is a Position command: new queues
\* exactly the Position command with its size, position and anchor order,
\* and no command of any other type was queued before one.
C12_PositionFirst ==
    /\ stream.first = Some("Position")
    /\ call.op = "new" =>
          sent = << [type |-> "Position", grid_position |-> call.grid_position,
                     grid_size |-> call.grid_size,
                     floating_order |-> call.anchor_info] >>

\* C12 witness: a window constructed 2 x 1 whose first operation was hide:
\* Hide came after the Position command.
C12_Witness ==
    /\ call.op = "hide"
    /\ sent = <<Hide>>
    /\ stream.first = Some("Position")
    /\ stream.position # None
    /\ stream.position[1].grid_size = <<2, 1>>

(***************************************************************************)
(* C13.  The commands of redraw.                                           *)
(***************************************************************************)
\* The commands from the i-th on are the DrawLines of the rows of g from
\* row y down to row 0, and nothing more.
RECURSIVE BottomUp(_, _, _, _)
BottomUp(commands, i, g, y) ==
    IF y < 0 THEN i = Len(commands) + 1
    ELSE /\ i <= Len(commands)
         /\ Carries(commands[i], g, y)
         /\ BottomUp(commands, i + 1, g, y - 1)

\* C13: redraw leaves the grid as it is and queues one Clear command and
\* then one DrawLine for each row, from row height - 1 down to row 0 (the
\* Clear alone when the height is 0).
C13_Redraw ==
    [][call'.op = "redraw" =>
          /\ grid' = grid
          /\ Len(sent') = 1 + grid.height
          /\ sent'[1] = Clear
          /\ BottomUp(sent', 2, grid, grid.height - 1)]_vars

\* C13 witness: the redraw of a 1 x 2 grid that holds "a" in row 0: Clear,
\* then row 1, then row 0.
C13_Witness ==
    /\ call.op = "redraw"
    /\ SizeOf(grid) = <<1, 2>>
    /\ cell_at(grid, 0, 0).text = <<"a">>
    /\ cell_at(grid, 0, 1) = DefaultCell
    /\ Len(sent) = 3
    /\ sent[1] = Clear
    /\ sent[2].fragments[1].window_top = 1
    /\ sent[3].fragments[1].window_top = 0
    /\ sent[3].fragments[1].text = <<"a">>

(***************************************************************************)
(* C14.  The commands of position and resize.                              *)
(***************************************************************************)
\* C14: position and resize leave a grid of the size they are given and
\* queue, in this order, one Position command with that size (for position
\* with its position and anchor order, for resize with those the window
\* has), one Clear command and one DrawLine for each row of the resized
\* grid from the bottom row up, each carrying its row as the grid holds it
\* after the call.
C14_PositionResize ==
    [][call'.op \in {"position", "resize"} =>
          /\ SizeOf(grid') = call'.grid_size
          /\ Len(sent') = 2 + grid'.height
          /\ sent'[1] =
                [type |-> "Position",
                 grid_position |-> IF call'.op = "position"
                                   THEN call'.grid_position ELSE grid_position,
                 grid_size |-> call'.grid_size,
                 floating_order |-> IF call'.op = "position"
                                    THEN call'.anchor_info ELSE anchor_info]
          /\ sent'[2] = Clear
          /\ BottomUp(sent', 3, grid', grid'.height - 1)
          /\ (call'.op = "position" =>
                  anchor_info' = call'.anchor_info
                  /\ grid_position' = call'.grid_position)]_vars

\* C14 witness: a position call that made a 2 x 1 grid holding "a" at
\* column 0 into a 1 x 2 grid, floating at (1, 1): Position, Clear, row 1,
\* row 0 with the "a".
C14_Witness ==
    /\ call.op = "position"
    /\ call.grid_size = <<1, 2>>
    /\ call.anchor_info = Some(1)
    /\ Len(sent) = 4
    /\ sent[1].type = "Position"
    /\ sent[1].floating_order = Some(1)
    /\ sent[1].grid_position = <<1, 1>>
    /\ sent[2] = Clear
    /\ sent[3].fragments[1].window_top = 1
    /\ sent[4].fragments[1].text = <<"a">>

(***************************************************************************)
(* C15.  The in-place copy of scroll_region and the copy from a snapshot.  *)
(***************************************************************************)
\* The coordinate (x, y) of g is a source of call c: it is in the ranges
\* the call iterates over.
IsSource(c, g, x, y) ==
    /\ in_bounds(g, x, y)
    /\ IF c.rows > 0
       THEN as_i64(c.top) + c.rows <= y /\ y < as_i64(c.bottom)
       ELSE as_i64(c.top) <= y /\ y < as_i64(c.bottom) + c.rows
    /\ IF c.cols > 0
       THEN as_i64(c.left) + c.cols <= x /\ x < as_i64(c.right)
       ELSE as_i64(c.left) <= x /\ x < as_i64(c.right) + c.cols

\* C15: after scroll_region every destination (x - cols, y - rows) inside
\* the grid, of a source (x, y) inside the grid, holds the text and style
\* (x, y) had before the call: the copy in place gives what a copy from a
\* snapshot gives, no destination receives a value the call had overwritten.
C15_Snapshot ==
    [][call'.op = "scroll_region" =>
          \A x \in Columns(grid), y \in Rows(grid) :
              (IsSource(call', grid, x, y)
                  /\ in_bounds(grid, x - call'.cols, y - call'.rows)) =>
                  cell_at(grid', x - call'.cols, y - call'.rows) = cell_at(grid, x, y)]_vars

\* C15 witness: the whole of a 3 x 3 grid of unlike cells scrolled by
\* (-1, -1), source and destination overlapping: (1, 1) holds what (0, 0)
\* held and still holds, (2, 2) what (1, 1) held.
C15_Witness ==
    /\ call.op = "scroll_region"
    /\ SizeOf(grid) = <<3, 3>>
    /\ call.top = 0 /\ call.bottom = 3 /\ call.left = 0 /\ call.right = 3
    /\ call.rows = -1 /\ call.cols = -1
    /\ cell_at(grid, 0, 0) = [text |-> <<"a">>, style |-> None]
    /\ cell_at(grid, 1, 1) = cell_at(grid, 0, 0)
    /\ cell_at(grid, 2, 2) = [text |-> <<"a", "m">>, style |-> Some(11)]
    /\ cell_at(grid, 2, 0) = [text |-> <<"a", "m", "m">>, style |-> None]

(***************************************************************************)
(* C16.  The style of an update.                                           *)
(***************************************************************************)
\* The style of the i-th update of a list by the rules of the highlight
\* ids, and the style carried into it: that of the nearest update before it
\* that is not skipped, no style when there is none.
RECURSIVE AppliedStyle(_, _, _)
RECURSIVE CarriedStyle(_, _, _)
AppliedStyle(cells, i, table) ==
    LET id == cells[i].highlight_id
    IN IF id = None THEN CarriedStyle(cells, i - 1, table)
       ELSE IF id[1] = 0 THEN None
       ELSE IF id[1] \in DOMAIN table THEN Some(table[id[1]])
       ELSE None

CarriedStyle(cells, j, table) ==
    IF j = 0 THEN None
    ELSE IF cells[j].repeat = Some(0) THEN CarriedStyle(cells, j - 1, table)
    ELSE AppliedStyle(cells, j, table)

\* C16: every update of a draw_grid_line call that is not skipped writes
\* its cells, and leaves as the carry style: no style for highlight id 0,
\* the table's entry for a nonzero id in the table, no style for a nonzero
\* id missing from it and, without id, the style of the nearest update
\* before it in the same call that was not skipped, no style when there is
\* none, whatever the calls before left.
C16_Styles ==
    [][DrewRowOf(call', grid) =>
          LET trace == TraceOf(call', grid)
          IN /\ grid' = trace[Len(trace)].grid
             /\ \A i \in 1..Len(call'.cells) :
                   call'.cells[i].repeat # Some(0) =>
                       LET style == AppliedStyle(call'.cells, i, call'.defined_styles)
                       IN /\ trace[i + 1].previous_style = style
                          /\ \A x \in trace[i].column_pos..(trace[i + 1].column_pos - 1) :
                                in_bounds(grid, x, call'.row) =>
                                    cell_at(trace[i + 1].grid, x, call'.row).style = style]_vars

\* C16 witness: on a row filled in style 11, "a" without id and then "a"
\* with the missing id 2: both are written without style, column 2 keeps
\* style 11.
C16_Witness ==
    /\ call.op = "draw_grid_line"
    /\ call.row = 0 /\ call.column_start = 0
    /\ call.cells = <<GridLineCell(<<"a">>, None, None),
                      GridLineCell(<<"a">>, Some(2), None)>>
    /\ SizeOf(grid) = <<3, 1>>
    /\ cell_at(grid, 0, 0) = [text |-> <<"a">>, style |-> None]
    /\ cell_at(grid, 1, 0) = [text |-> <<"a">>, style |-> None]
    /\ cell_at(grid, 2, 0) = [text |-> <<"a">>, style |-> Some(11)]

(***************************************************************************)
(* C17.  Writes past the width.                                            *)
(***************************************************************************)
\* What an update lays out, one entry for each column: the grapheme
\* clusters of its text repeated, or one empty text.
LaidOut(cell) ==
    LET text == IF cell.repeat = None THEN cell.text
                ELSE repeat(cell.text, cell.repeat[1])
    IN IF text = <<>> THEN << <<>> >> ELSE graphemes(text)

\* The grid g with the entries laid out in row from column pos on, those
\* at columns inside the grid only.
Overlaid(g, row, pos, entries, style) ==
    [g EXCEPT !.characters =
        [i \in DOMAIN g.characters |->
            LET x == (i - 1) % g.width
                y == (i - 1) \div g.width
            IN IF y = row /\ x >= pos /\ x < pos + Len(entries)
               THEN [text |-> entries[x - pos + 1], style |-> style]
               ELSE g.characters[i]]]

EndsWhereAllowed(g, y, f) ==
    LET end == f.window_left + f.width
    IN \/ end = g.width
       \/ cell_at(g, end, y).style # f.style
       \/ cell_at(g, end - 1, y).text = <<>>

\* C18: every cell a fragment spans has the fragment's style, the
\* fragment's text is the texts of the cells it spans in column order, and
\* the fragment ends only at the end of the row, right before a cell of
\* another style or right after a cell with empty text.
C18_Homogeneous ==
    \A y \in Rows(grid) :
        \A i \in 1..Len(FragmentsOf(grid, y)) :
            LET f == FragmentsOf(grid, y)[i]
            IN /\ f.window_top = y
               /\ f.width >= 1
               /\ f.window_left + f.width <= grid.width
               /\ \A x \in f.window_left..(f.window_left + f.width - 1) :
                     cell_at(grid, x, y).style = f.style
               /\ f.text = SpanText(grid, y, f.window_left, f.width)
               /\ EndsWhereAllowed(grid, y, f)

\* C18 witness: a row that holds "a", "a" in style 11 and "a" without
\* style is built as the fragment "aa" of width 2 and the fragment "a".
C18_Witness ==
    /\ call.op = "draw_grid_line"
    /\ SizeOf(grid) = <<3, 1>>
    /\ cell_at(grid, 0, 0) = [text |-> <<"a">>, style |-> Some(11)]
    /\ cell_at(grid, 1, 0) = [text |-> <<"a">>, style |-> Some(11)]
    /\ cell_at(grid, 2, 0) = [text |-> <<"a">>, style |-> None]
    /\ sent[1].fragments =
          << [text |-> <<"a", "a">>, window_left |-> 0, window_top |-> 0,
              width |-> 2, style |-> Some(11)],
             [text |-> <<"a">>, window_left |-> 2, window_top |-> 0,
              width |-> 1, style |-> None] >>

(***************************************************************************)
(* C19.  scroll_region and the cells outside its region.                   *)
(***************************************************************************)
\* (x, y) is in the region [top, bottom) x [left, right) of call c.
InRegion(c, x, y) ==
    c.top <= y /\ y < c.bottom /\ c.left <= x /\ x < c.right

\* (x, y) is the destination of a source of call c.
IsDestination(c, g, x, y) == IsSource(c, g, x + c.cols, y + c.rows)

\* C19 as stated: for every region and every pair of deltas, scroll_region
\* leaves the size of the grid, every cell outside the region and every
\* cell of the region that is not the destination of a source (the rows and
\* columns vacated) with the text and style it had.
C19_RegionKept ==
    [][call'.op = "scroll_region" =>
          /\ SizeOf(grid') = SizeOf(grid)
          /\ \A x \in Columns(grid), y \in Rows(grid) :
                (~InRegion(call', x, y) \/ ~IsDestination(call', grid, x, y)) =>
                    cell_at(grid', x, y) = cell_at(grid, x, y)]_vars

\* The same for the calls whose region starts below 2^63 in both
\* directions: these it holds for.
C19_RegionKeptBelowSignBit ==
    [][(call'.op = "scroll_region"
          /\ as_i64(call'.top) >= 0 /\ as_i64(call'.left) >= 0) =>
          /\ SizeOf(grid') = SizeOf(grid)
          /\ \A x \in Columns(grid), y \in Rows(grid) :
                (~InRegion(call', x, y) \/ ~IsDestination(call', grid, x, y)) =>
                    cell_at(grid', x, y) = cell_at(grid, x, y)]_vars

(***************************************************************************)
(* C20.  The fragment loop ends.                                           *)
(***************************************************************************)
\* C20: from every column of every row, build_line_fragment returns a next
\* start that is greater than its start and not beyond the width, so the
\* loop of redraw_line ends with no more fragments than the row has
\* columns.
C20_FragmentLoopEnds ==
    \A y \in Rows(grid) :
        /\ \A start \in Columns(grid) :
              LET built == build_line_fragment(grid, y, start)
              IN /\ built[1] > start
                 /\ built[1] <= grid.width
                 /\ built[1] = start + built[2].width
        /\ Len(FragmentsOf(grid, y)) <= grid.width

\* C20 witness: a row that holds a blank cell, a combining mark in style 11
\* and a blank cell takes three fragments, as many as it has columns; from
\* column 1 the next start is 2.
C20_Witness ==
    /\ call.op = "draw_grid_line"
    /\ SizeOf(grid) = <<3, 1>>
    /\ cell_at(grid, 0, 0) = DefaultCell
    /\ cell_at(grid, 1, 0) = [text |-> <<"m">>, style |-> Some(11)]
    /\ cell_at(grid, 2, 0) = DefaultCell
    /\ build_line_fragment(grid, 0, 1)[1] = 2
    /\ Len(sent) = 1
    /\ Len(sent[1].fragments) = 3

=============================================================================
